---- MODULE Spec2Model ----
(***************************************************************************)
(* VeloBert training script (src/velobert/train.py).                       *)
(*                                                                         *)
(* Several levels of the script are modelled, each with its own            *)
(* specification over the same variables:                                  *)
(*   Spec      main() and train_and_validate(): the 10-fold loop, the      *)
(*             epoch loop, the best-score trackers, checkpoints, CSV logs  *)
(*             and the cross-fold summary.  The result of a training or    *)
(*             evaluation pass is an input (a function of the fold and of  *)
(*             the model parameters), drawn in Init.                       *)
(*   SpecLoss  MaskedHuberLoss.forward on small tensors.                   *)
(*   SpecPass  train_epoch() and evaluate() over a loader of batches,      *)
(*             with score_reg() computed in exact rational arithmetic.     *)
(*   SpecFeat  the flags aa, protein, ss: the width of the projection      *)
(*             layer, the path suffixes and the auxiliary tensor handed    *)
(*             to the model by train_epoch() and evaluate().               *)
(*   SpecWide  as Spec, on evaluation results at and beyond the initial    *)
(*             values of the trackers.                                     *)
(* Floating point values are modelled by integers (fixed point) or by      *)
(* rationals <<numerator, denominator>> in lowest terms; NaN is a token.   *)
(***************************************************************************)
EXTENDS Integers, Sequences, FiniteSets, TLC

(***************************************************************************)
(* Bounds of the model and constants of the program.                       *)
(***************************************************************************)
\* --num_train_epochs ranges over 0..MaxEpochs
MaxEpochs == 2

\* for i in range(10)
NumFolds == 10

\* max_r2 = -1e8, min_mse = 1e8, max_corr = -1e8, best_loss = 1e8, best_eval_loss = 1e8
SentinelHigh == 100000000

SentinelLow == 0 - SentinelHigh

\* no exception / no mode yet
None == "None"

(***************************************************************************)
(* Floats.  A float is <<"num", n, d>>, the rational n/d in lowest terms    *)
(* with d > 0, or NaN.  Every comparison with NaN is false.                *)
(***************************************************************************)
NaN == <<"nan", 0, 1>>

F(n) == <<"num", n, 1>>

\* whole part first, then the fractional parts (products stay small)
FloatLess(a, b) ==
    /\ a # NaN /\ b # NaN
    /\ LET fa == a[2] \div a[3]
           fb == b[2] \div b[3]
       IN  IF fa # fb THEN fa < fb
           ELSE (a[2] % a[3]) * b[3] < (b[2] % b[3]) * a[3]

FloatGreater(a, b) == FloatLess(b, a)

Abs(n) == IF n < 0 THEN 0 - n ELSE n

RECURSIVE GCD(_, _)
GCD(a, b) == IF b = 0 THEN a ELSE GCD(b, a % b)

\* the float n/d, d # 0
Ratio(n, d) ==
    LET g == GCD(Abs(n), Abs(d))
        sg == IF d < 0 THEN 0 - 1 ELSE 1
    IN  <<"num", (sg * n) \div g, Abs(d) \div g>>

FloatAdd(a, b) ==
    IF a = NaN \/ b = NaN THEN NaN ELSE Ratio(a[2] * b[3] + b[2] * a[3], a[3] * b[3])

FloatSub(a, b) ==
    IF a = NaN \/ b = NaN THEN NaN ELSE Ratio(a[2] * b[3] - b[2] * a[3], a[3] * b[3])

FloatMul(a, b) == IF a = NaN \/ b = NaN THEN NaN ELSE Ratio(a[2] * b[2], a[3] * b[3])

FloatAbs(a) == IF a = NaN THEN NaN ELSE <<"num", Abs(a[2]), a[3]>>

\* a / b, b # 0
FloatDiv(a, b) == IF a = NaN \/ b = NaN THEN NaN ELSE Ratio(a[2] * b[3], a[3] * b[2])

\* a / n for an integer n > 0
FloatDivInt(a, n) == IF a = NaN THEN NaN ELSE Ratio(a[2], a[3] * n)

\* Python's sum(list)
RECURSIVE FloatSum(_)
FloatSum(list) ==
    IF list = <<>> THEN F(0) ELSE FloatAdd(FloatSum(SubSeq(list, 1, Len(list) - 1)), list[Len(list)])

(***************************************************************************)
(* Results a pass can return.  An evaluation pass returns                  *)
(* (avg_loss, r2, mse, corr); corr is NaN when the predictions or the      *)
(* targets are constant.  Two outcomes tie on r2 with different mse/corr.  *)
(***************************************************************************)
Result(l, r, m, c) == [avg_loss |-> l, r2 |-> r, mse |-> m, corr |-> c]

EvalOutcomes ==
    { Result(F(5), F(1), F(4), NaN),
      Result(F(4), F(2), F(6), F(1)),
      Result(F(6), F(2), F(3), F(3)) }

TrainOutcomes ==
    { Result(F(3), F(1), F(5), F(1)),
      Result(F(2), F(0), F(4), F(2)) }

\* a local that has not been assigned
Unset == Result(NaN, NaN, NaN, NaN)

\* exceptions that reach main(): none is caught anywhere in the script
LoadErrors == {"FileNotFoundError", "EmptyDataset"}

PassErrors == {"ValueError", "ZeroDivisionError"}

VARIABLES
    num_epoch,      \* args.num_train_epochs
    trainSeq,       \* input: result of the training pass, by parameter version
    evalSeq,        \* input: result of an evaluation pass, by parameter version
    pc,             \* position of the script
    exc,            \* exception that terminated the process, or None
    i,              \* main(): fold index of the for loop
    built,          \* main(): fold indices whose CodenBert was constructed
    model,          \* parameter version of the fold's model (training passes done)
    mode,           \* model.training: "train" or "eval"
    optimizer,      \* optimizer steps taken (one unit per training pass)
    sched,          \* lr_scheduler.step() calls in this fold
    epoch,          \* train_and_validate(): loop variable
    max_r2, min_mse, max_corr, best_loss, best_eval_loss,
    train_res,      \* train_loss, r2, mse, corr of line 311
    eval_res,       \* eval_loss, r2, mse, corr of line 332
    ckpt,           \* checkpoint files: path -> saved model_state
    train_log,      \* files written at line 316: path -> rows
    eval_log,       \* files written at line 345: path -> rows
    plots,          \* files written by plot_correlation: path -> points, score
    best_result,    \* rows of the cross-fold summary CSV
    r2_list, mse_list, corr_list,
    average,        \* the reported cross-fold average, <<>> before the report
    ret             \* value returned by train_and_validate, <<>> before the return

runVars == <<num_epoch, trainSeq, evalSeq, pc, exc, i, built, model, mode, optimizer,
             sched, epoch, max_r2, min_mse, max_corr, best_loss, best_eval_loss,
             train_res, eval_res, ckpt, train_log, eval_log, plots, best_result,
             r2_list, mse_list, corr_list, average, ret>>

VARIABLES
    lpc,            \* MaskedHuberLoss.forward: "call" or "returned"
    l_pred,         \* pred, flattened
    l_label,        \* label, flattened
    l_valid,        \* valid_sequence, flattened
    l_out           \* the value forward returned

lossVars == <<lpc, l_pred, l_label, l_valid, l_out>>

VARIABLES
    loader,         \* train_loader / eval_loader: the batches, in order
    p_max_r2,       \* evaluate's argument max_r2
    ppc,            \* position inside train_epoch / evaluate
    p_w,            \* the model's parameters
    p_opt,          \* optimizer.step() calls
    p_mode,         \* model.training: "train" or "eval"
    p_k,            \* index of the loader's next batch
    te_loss_list, te_r2_list, te_mse_list, te_corr_list,   \* train_epoch's lists
    ev_loss_list, ev_trues, ev_preds,                       \* evaluate's lists
    te_ret,         \* what train_epoch returned or raised
    ev_rets,        \* what the calls of evaluate returned or raised, in order
    p_plot          \* the fold's plot file: <<>> or the score drawn

passVars == <<loader, p_max_r2, ppc, p_w, p_opt, p_mode, p_k, te_loss_list, te_r2_list,
              te_mse_list, te_corr_list, ev_loss_list, ev_trues, ev_preds, te_ret,
              ev_rets, p_plot>>

VARIABLES
    args,                       \* the flags: aa, protein, ss, use_additional_feature
    fpc,                        \* position of the script in the feature model
    f_exc,                      \* exception raised by a forward call, or None
    additional_feature_dim,     \* main(), lines 607-616
    best_result_path,           \* main(), lines 605-619; <<>> before
    additional_feature_layer,   \* in_features of the projection layer, line 70
    train_log_path,             \* train_and_validate, lines 291-304; <<>> before
    eval_log_path,              \* train_and_validate, lines 292-305; <<>> before
    handed                      \* additional_features of each forward call, in order

featVars == <<args, fpc, f_exc, additional_feature_dim, best_result_path,
              additional_feature_layer, train_log_path, eval_log_path, handed>>

vars == <<runVars, lossVars, passVars, featVars>>

(***************************************************************************)
(* Files.                                                                  *)
(***************************************************************************)
\* f.write / torch.save: create or overwrite
Write(files, path, content) ==
    [p \in DOMAIN files \cup {path} |-> IF p = path THEN content ELSE files[p]]

\* open(path, 'a') ... writerow(row)
AppendRow(files, path, row) ==
    Write(files, path, IF path \in DOMAIN files THEN Append(files[path], row) ELSE <<row>>)

Rows(files, path) == IF path \in DOMAIN files THEN files[path] ELSE <<>>

\* save(): os.path.join(save_path, f'pytorch_model_P{name}.pth'), save_path = checkpoints/fold_{i+1}
CkptPath(fold, name) == <<"checkpoints", fold, name>>

save(files, m, fold, name) == Write(files, CkptPath(fold, name), [model_state |-> m])

\* lines 550-560: --aa, --protein, --ss and the derived use_additional_feature
Flags(a, p, s) ==
    [aa |-> a, protein |-> p, ss |-> s, use_additional_feature |-> (a \/ p \/ s)]

\* path += tag, when the flag is set
Tag(flag, tag) == IF flag THEN <<tag>> ELSE <<>>

\* lines 294-302: the tags appended to both log paths
LogSuffix(a) == Tag(a.aa, "_aa") \o Tag(a.protein, "_protein") \o Tag(a.ss, "_ss")

\* line 137: f'{fold}_relationship_result.jpg', in the working directory
PlotPath(fold) == <<fold, "_relationship_result.jpg">>

\* lines 107-141: the scatter of the evaluation's (true, predicted) points, the
\* evaluation being named by the parameters it ran on, and the score
plot_correlation(files, points, fold, score) ==
    Write(files, PlotPath(fold), [points |-> points, score |-> score])

\* logs/train_log_{epoch_max}...csv and logs/eval_log_{epoch_max}...csv: no fold in the name
TrainLogPath(fold, epoch_max) == <<"logs/train_log", epoch_max>> \o LogSuffix(args) \o <<".csv">>

EvalLogPath(fold, epoch_max) == <<"logs/eval_log", epoch_max>> \o LogSuffix(args) \o <<".csv">>

(***************************************************************************)
(* The passes, seen from train_and_validate.  A pass is deterministic in   *)
(* the fold's data and the model parameters; folds differ in their data,   *)
(* so they read the input sequences in different orders and parts.         *)
(***************************************************************************)
DataIndex(fold, m) == (((m - 1) * ((fold % 3) + 1) + fold) % num_epoch) + 1

\* train_epoch on the model with parameters m - 1, giving parameters m
TrainResult(fold, m) == trainSeq[DataIndex(fold, m)]

\* evaluate in inference mode on the model with parameters m
EvalResult(fold, m) == evalSeq[DataIndex(fold, m)]

\* main() starts, with n training epochs configured and passes that return
\* results of the given sets
RunStartOn(n, trains, evals) ==
    /\ num_epoch = n
    /\ trainSeq \in [1..num_epoch -> trains]
    /\ evalSeq \in [1..num_epoch -> evals]
    /\ pc = "main_loop"
    /\ exc = None
    /\ i = 0
    /\ built = <<>>
    /\ model = 0
    /\ mode = None
    /\ optimizer = 0
    /\ sched = 0
    /\ epoch = 0
    /\ max_r2 = NaN /\ min_mse = NaN /\ max_corr = NaN      \* not assigned before
    /\ best_loss = NaN /\ best_eval_loss = NaN             \* train_and_validate runs
    /\ train_res = Unset
    /\ eval_res = Unset
    /\ ckpt = <<>>
    /\ train_log = <<>>
    /\ eval_log = <<>>
    /\ plots = <<>>
    /\ best_result = <<>>
    /\ r2_list = <<>> /\ mse_list = <<>> /\ corr_list = <<>>
    /\ average = <<>>
    /\ ret = <<>>

\* no call of MaskedHuberLoss.forward under way
LossIdle ==
    /\ lpc = "idle"
    /\ l_pred = <<>> /\ l_label = <<>> /\ l_valid = <<>>
    /\ l_out = NaN

\* no call of train_epoch or evaluate under way
PassIdle ==
    /\ loader = <<>>
    /\ p_max_r2 = NaN
    /\ ppc = "idle"
    /\ p_w = 0 /\ p_opt = 0 /\ p_mode = None /\ p_k = 0
    /\ te_loss_list = <<>> /\ te_r2_list = <<>> /\ te_mse_list = <<>> /\ te_corr_list = <<>>
    /\ ev_loss_list = <<>> /\ ev_trues = <<>> /\ ev_preds = <<>>
    /\ te_ret = <<>>
    /\ ev_rets = <<>>
    /\ p_plot = <<>>

\* the flags as parsed (lines 550-560), here with no feature group enabled;
\* nothing of the feature model under way
FeatIdle ==
    /\ args = Flags(FALSE, FALSE, FALSE)
    /\ fpc = "idle"
    /\ f_exc = None
    /\ additional_feature_dim = 0
    /\ best_result_path = <<>>
    /\ additional_feature_layer = 0
    /\ train_log_path = <<>>
    /\ eval_log_path = <<>>
    /\ handed = <<>>

\* main() starts, with n training epochs configured
RunStart(n) == RunStartOn(n, TrainOutcomes, EvalOutcomes)

Init ==
    /\ \E n \in 0..MaxEpochs : RunStart(n)
    /\ LossIdle
    /\ PassIdle
    /\ FeatIdle

(***************************************************************************)
(* The comparisons and assignments of the checkpoint selection.            *)
(***************************************************************************)
\* the train-loss tracker following the latest epoch instead of the best one
NewBestLoss_Latest(train_loss, best) == train_loss

\* line 326: if train_loss < best_loss: best_loss = train_loss
NewBestLoss(train_loss, best) == IF FloatLess(train_loss, best) THEN train_loss ELSE best

\* line 333: if eval_loss < best_eval_loss
EvalLossImproved(eval_loss, best) == FloatLess(eval_loss, best)

\* a tie on R2 counting as a new best
R2Improved_OrEqual(r2, best) == r2 # NaN /\ best # NaN /\ ~FloatLess(r2, best)

\* line 339: if r2 > max_r2 (and line 273, the same test inside evaluate)
R2Improved(r2, best) == FloatGreater(r2, best)

\* min_mse kept as the smallest MSE observed instead of the MSE of the best R2
NewBestTriple_MinMse(res, old) ==
    <<res.r2, IF FloatLess(res.mse, old[2]) THEN res.mse ELSE old[2], res.corr>>

\* lines 340-342: the three assignments
NewBestTriple(res, old) == <<res.r2, res.mse, res.corr>>

\* the summary row carrying the loop index instead of the fold number
SummaryRow_Index(fold_index, triple) == <<fold_index, triple[1], triple[2], triple[3]>>

\* line 725: csv_writer.writerow([i+1, max_r2, min_mse, max_corr])
SummaryRow(fold_index, triple) == <<fold_index + 1, triple[1], triple[2], triple[3]>>

\* the plot redrawn also when the R2 equals the best so far
PlotDue_OrEqual(r2, best) == r2 # NaN /\ best # NaN /\ ~FloatLess(r2, best)

\* line 273: if r2 > max_r2
PlotDue(r2, best) == FloatGreater(r2, best)

\* the schedule stepped once more
LrSchedulerStep_Twice(steps) == steps + 2

\* line 313: lr_scheduler.step()
LrSchedulerStep(steps) == steps + 1

\* a failure isolated per fold: the loop goes on
Uncaught_Isolated == "main_loop"

\* an exception raised inside main()'s loop is caught nowhere: the process ends
Uncaught == "aborted"

(***************************************************************************)
(* main(): the fold loop, lines 621-729.                                   *)
(***************************************************************************)
\* lines 621-718: a fresh model, datasets, loaders, optimizer and schedule for fold i
ConstructFold ==
    /\ pc = "main_loop" /\ i < NumFolds
    /\ built' = Append(built, i)
    /\ model' = 0
    /\ mode' = "train"
    /\ optimizer' = 0
    /\ sched' = 0
    /\ pc' = "tv_enter"
    /\ UNCHANGED <<num_epoch, trainSeq, evalSeq, exc, i, epoch, max_r2, min_mse, max_corr,
                   best_loss, best_eval_loss, train_res, eval_res, ckpt, train_log,
                   eval_log, plots, best_result, r2_list, mse_list, corr_list, average, ret>>
    /\ UNCHANGED <<lossVars, passVars, featVars>>

\* lines 677-706: GeneSequenceDataset / DataLoader raise (missing file, empty dataset)
ConstructFoldRaise ==
    /\ pc = "main_loop" /\ i < NumFolds
    /\ \E e \in LoadErrors : exc' = e
    /\ built' = Append(built, i)
    /\ pc' = Uncaught
    /\ UNCHANGED <<num_epoch, trainSeq, evalSeq, i, model, mode, optimizer, sched, epoch,
                   max_r2, min_mse, max_corr, best_loss, best_eval_loss, train_res,
                   eval_res, ckpt, train_log, eval_log, plots, best_result, r2_list,
                   mse_list, corr_list, average, ret>>
    /\ UNCHANGED <<lossVars, passVars, featVars>>

(***************************************************************************)
(* train_and_validate(), lines 278-359.                                    *)
(***************************************************************************)
\* lines 279-305
TrainAndValidateEnter ==
    /\ pc = "tv_enter"
    /\ max_r2' = F(SentinelLow)
    /\ min_mse' = F(SentinelHigh)
    /\ max_corr' = F(SentinelLow)
    /\ best_loss' = F(SentinelHigh)
    /\ best_eval_loss' = F(SentinelHigh)
    /\ epoch' = 0
    /\ ret' = <<>>
    /\ pc' = "loop"
    /\ UNCHANGED <<num_epoch, trainSeq, evalSeq, exc, i, built, model, mode, optimizer,
                   sched, train_res, eval_res, ckpt, train_log, eval_log, plots,
                   best_result, r2_list, mse_list, corr_list, average>>
    /\ UNCHANGED <<lossVars, passVars, featVars>>

\* line 307: for epoch in range(1, num_epoch + 1)
EpochNext ==
    /\ pc = "loop" /\ epoch < num_epoch
    /\ epoch' = epoch + 1
    /\ pc' = "train"
    /\ UNCHANGED <<num_epoch, trainSeq, evalSeq, exc, i, built, model, mode, optimizer,
                   sched, max_r2, min_mse, max_corr, best_loss, best_eval_loss,
                   train_res, eval_res, ckpt, train_log, eval_log, plots, best_result,
                   r2_list, mse_list, corr_list, average, ret>>
    /\ UNCHANGED <<lossVars, passVars, featVars>>

\* line 311: train_epoch returns
TrainEpoch ==
    /\ pc = "train"
    /\ mode' = "train"
    /\ model' = model + 1
    /\ optimizer' = optimizer + 1
    /\ train_res' = TrainResult(i, model + 1)
    /\ pc' = "sched"
    /\ UNCHANGED <<num_epoch, trainSeq, evalSeq, exc, i, built, sched, epoch, max_r2,
                   min_mse, max_corr, best_loss, best_eval_loss, eval_res, ckpt,
                   train_log, eval_log, plots, best_result, r2_list, mse_list,
                   corr_list, average, ret>>
    /\ UNCHANGED <<lossVars, passVars, featVars>>

\* line 311: train_epoch raises (score_reg on a batch with fewer than 2 valid
\* positions at line 191, the division at line 208 on an empty loader)
TrainEpochRaise ==
    /\ pc = "train"
    /\ \E e \in PassErrors : exc' = e
    /\ mode' = "train"
    /\ pc' = Uncaught
    /\ UNCHANGED <<num_epoch, trainSeq, evalSeq, i, built, model, optimizer, sched, epoch,
                   max_r2, min_mse, max_corr, best_loss, best_eval_loss, train_res,
                   eval_res, ckpt, train_log, eval_log, plots, best_result, r2_list,
                   mse_list, corr_list, average, ret>>
    /\ UNCHANGED <<lossVars, passVars, featVars>>

\* line 313
SchedulerStep ==
    /\ pc = "sched"
    /\ sched' = LrSchedulerStep(sched)
    /\ pc' = "train_log"
    /\ UNCHANGED <<num_epoch, trainSeq, evalSeq, exc, i, built, model, mode, optimizer,
                   epoch, max_r2, min_mse, max_corr, best_loss, best_eval_loss,
                   train_res, eval_res, ckpt, train_log, eval_log, plots, best_result,
                   r2_list, mse_list, corr_list, average, ret>>
    /\ UNCHANGED <<lossVars, passVars, featVars>>

\* lines 316-319
WriteTrainLog ==
    /\ pc = "train_log"
    /\ train_log' = AppendRow(train_log, TrainLogPath(i + 1, num_epoch),
                              <<epoch, train_res.avg_loss, train_res.r2, train_res.mse,
                                train_res.corr>>)
    /\ pc' = "save_last"
    /\ UNCHANGED <<num_epoch, trainSeq, evalSeq, exc, i, built, model, mode, optimizer,
                   sched, epoch, max_r2, min_mse, max_corr, best_loss, best_eval_loss,
                   train_res, eval_res, ckpt, eval_log, plots, best_result, r2_list,
                   mse_list, corr_list, average, ret>>
    /\ UNCHANGED <<lossVars, passVars, featVars>>

\* line 324
SaveLast ==
    /\ pc = "save_last"
    /\ ckpt' = save(ckpt, model, i + 1, "last")
    /\ pc' = "best_loss"
    /\ UNCHANGED <<num_epoch, trainSeq, evalSeq, exc, i, built, model, mode, optimizer,
                   sched, epoch, max_r2, min_mse, max_corr, best_loss, best_eval_loss,
                   train_res, eval_res, train_log, eval_log, plots, best_result,
                   r2_list, mse_list, corr_list, average, ret>>
    /\ UNCHANGED <<lossVars, passVars, featVars>>

\* lines 326-329 (epoch_val = 1: the evaluation branch is taken in every epoch)
UpdateBestLoss ==
    /\ pc = "best_loss"
    /\ best_loss' = NewBestLoss(train_res.avg_loss, best_loss)
    /\ pc' = "evaluate"
    /\ UNCHANGED <<num_epoch, trainSeq, evalSeq, exc, i, built, model, mode, optimizer,
                   sched, epoch, max_r2, min_mse, max_corr, best_eval_loss, train_res,
                   eval_res, ckpt, train_log, eval_log, plots, best_result, r2_list,
                   mse_list, corr_list, average, ret>>
    /\ UNCHANGED <<lossVars, passVars, featVars>>

\* line 332: evaluate returns; lines 270-275: the plot is written when r2 > max_r2
Evaluate ==
    /\ pc = "evaluate"
    /\ mode' = "eval"
    /\ eval_res' = EvalResult(i, model)
    /\ plots' = IF PlotDue(eval_res'.r2, max_r2)
                THEN plot_correlation(plots, model, i + 1, eval_res'.r2) ELSE plots
    /\ pc' = "eval_loss"
    /\ UNCHANGED <<num_epoch, trainSeq, evalSeq, exc, i, built, model, optimizer, sched,
                   epoch, max_r2, min_mse, max_corr, best_loss, best_eval_loss,
                   train_res, ckpt, train_log, eval_log, best_result, r2_list,
                   mse_list, corr_list, average, ret>>
    /\ UNCHANGED <<lossVars, passVars, featVars>>

\* line 332: evaluate raises (score_reg at line 270 on fewer than 2 pooled valid
\* positions, the division at line 271 on an empty loader)
EvaluateRaise ==
    /\ pc = "evaluate"
    /\ \E e \in PassErrors : exc' = e
    /\ mode' = "eval"
    /\ pc' = Uncaught
    /\ UNCHANGED <<num_epoch, trainSeq, evalSeq, i, built, model, optimizer, sched, epoch,
                   max_r2, min_mse, max_corr, best_loss, best_eval_loss, train_res,
                   eval_res, ckpt, train_log, eval_log, plots, best_result, r2_list,
                   mse_list, corr_list, average, ret>>
    /\ UNCHANGED <<lossVars, passVars, featVars>>

\* lines 333-335
UpdateBestEvalLoss ==
    /\ pc = "eval_loss"
    /\ IF EvalLossImproved(eval_res.avg_loss, best_eval_loss)
       THEN /\ best_eval_loss' = eval_res.avg_loss
            /\ ckpt' = save(ckpt, model, i + 1, "best_eval_loss")
       ELSE UNCHANGED <<best_eval_loss, ckpt>>
    /\ pc' = "best_r2"
    /\ UNCHANGED <<num_epoch, trainSeq, evalSeq, exc, i, built, model, mode, optimizer,
                   sched, epoch, max_r2, min_mse, max_corr, best_loss, train_res,
                   eval_res, train_log, eval_log, plots, best_result, r2_list,
                   mse_list, corr_list, average, ret>>
    /\ UNCHANGED <<lossVars, passVars, featVars>>

\* lines 339-343
UpdateBestR2 ==
    /\ pc = "best_r2"
    /\ IF R2Improved(eval_res.r2, max_r2)
       THEN /\ LET t == NewBestTriple(eval_res, <<max_r2, min_mse, max_corr>>)
               IN  max_r2' = t[1] /\ min_mse' = t[2] /\ max_corr' = t[3]
            /\ ckpt' = save(ckpt, model, i + 1, "best")
       ELSE UNCHANGED <<max_r2, min_mse, max_corr, ckpt>>
    /\ pc' = "eval_log"
    /\ UNCHANGED <<num_epoch, trainSeq, evalSeq, exc, i, built, model, mode, optimizer,
                   sched, epoch, best_loss, best_eval_loss, train_res, eval_res,
                   train_log, eval_log, plots, best_result, r2_list, mse_list,
                   corr_list, average, ret>>
    /\ UNCHANGED <<lossVars, passVars, featVars>>

\* lines 345-348
WriteEvalLog ==
    /\ pc = "eval_log"
    /\ eval_log' = AppendRow(eval_log, EvalLogPath(i + 1, num_epoch),
                             <<epoch, eval_res.avg_loss, eval_res.r2, eval_res.mse,
                               eval_res.corr>>)
    /\ pc' = "loop"
    /\ UNCHANGED <<num_epoch, trainSeq, evalSeq, exc, i, built, model, mode, optimizer,
                   sched, epoch, max_r2, min_mse, max_corr, best_loss, best_eval_loss,
                   train_res, eval_res, ckpt, train_log, plots, best_result, r2_list,
                   mse_list, corr_list, average, ret>>
    /\ UNCHANGED <<lossVars, passVars, featVars>>

\* line 359, and line 720 receiving the triple
Return ==
    /\ pc = "loop" /\ epoch >= num_epoch
    /\ ret' = <<max_r2, min_mse, max_corr>>
    /\ pc' = "summary"
    /\ UNCHANGED <<num_epoch, trainSeq, evalSeq, exc, i, built, model, mode, optimizer,
                   sched, epoch, max_r2, min_mse, max_corr, best_loss, best_eval_loss,
                   train_res, eval_res, ckpt, train_log, eval_log, plots, best_result,
                   r2_list, mse_list, corr_list, average>>
    /\ UNCHANGED <<lossVars, passVars, featVars>>

\* lines 723-729, and the loop's next i
WriteSummary ==
    /\ pc = "summary"
    /\ best_result' = Append(best_result, SummaryRow(i, ret))
    /\ r2_list' = Append(r2_list, ret[1])
    /\ mse_list' = Append(mse_list, ret[2])
    /\ corr_list' = Append(corr_list, ret[3])
    /\ i' = i + 1
    /\ pc' = "main_loop"
    /\ UNCHANGED <<num_epoch, trainSeq, evalSeq, exc, built, model, mode, optimizer,
                   sched, epoch, max_r2, min_mse, max_corr, best_loss, best_eval_loss,
                   train_res, eval_res, ckpt, train_log, eval_log, plots, average, ret>>
    /\ UNCHANGED <<lossVars, passVars, featVars>>

\* lines 731-737
Report ==
    /\ pc = "main_loop" /\ i >= NumFolds
    /\ average' = << FloatDivInt(FloatSum(r2_list), Len(r2_list)),
                     FloatDivInt(FloatSum(mse_list), Len(mse_list)),
                     FloatDivInt(FloatSum(corr_list), Len(corr_list)) >>
    /\ pc' = "done"
    /\ UNCHANGED <<num_epoch, trainSeq, evalSeq, exc, i, built, model, mode, optimizer,
                   sched, epoch, max_r2, min_mse, max_corr, best_loss, best_eval_loss,
                   train_res, eval_res, ckpt, train_log, eval_log, plots, best_result,
                   r2_list, mse_list, corr_list, ret>>
    /\ UNCHANGED <<lossVars, passVars, featVars>>

Next ==
    \/ ConstructFold
    \/ ConstructFoldRaise
    \/ TrainAndValidateEnter
    \/ EpochNext
    \/ TrainEpoch
    \/ TrainEpochRaise
    \/ SchedulerStep
    \/ WriteTrainLog
    \/ SaveLast
    \/ UpdateBestLoss
    \/ Evaluate
    \/ EvaluateRaise
    \/ UpdateBestEvalLoss
    \/ UpdateBestR2
    \/ WriteEvalLog
    \/ Return
    \/ WriteSummary
    \/ Report

Spec == Init /\ [][Next]_vars

(***************************************************************************)
(* What the files say about the current fold.  The rows a fold has         *)
(* appended are the last rows of the file it appends to.                   *)
(***************************************************************************)
InFold == pc \in {"loop", "train", "sched", "train_log", "save_last", "best_loss",
                  "evaluate", "eval_loss", "best_r2", "eval_log", "summary"}

\* number of rows the current fold has appended to its training / evaluation log
TrainRowsWritten == IF pc \in {"train", "sched", "train_log"} THEN epoch - 1 ELSE epoch

EvalRowsWritten == IF pc \in {"loop", "summary"} THEN epoch ELSE epoch - 1

LastRows(rows, n) == SubSeq(rows, Len(rows) - n + 1, Len(rows))

FoldTrainRows == LastRows(Rows(train_log, TrainLogPath(i + 1, num_epoch)), TrainRowsWritten)

FoldEvalRows == LastRows(Rows(eval_log, EvalLogPath(i + 1, num_epoch)), EvalRowsWritten)

\* column c of the rows
Column(rows, c) == [k \in 1..Len(rows) |-> rows[k][c]]

IsMin(x, list) ==
    /\ \E k \in 1..Len(list) : list[k] = x
    /\ \A k \in 1..Len(list) : ~FloatLess(list[k], x)

IsMax(x, list) ==
    /\ \E k \in 1..Len(list) : list[k] = x
    /\ \A k \in 1..Len(list) : ~FloatGreater(list[k], x)

\* the epoch whose value is strictly better than every earlier one and not
\* beaten later: the last epoch that set a new best (0: none)
LastNewMin(list) ==
    IF list = <<>> THEN 0
    ELSE CHOOSE j \in 1..Len(list) :
            /\ \A h \in 1..(j - 1) : FloatLess(list[j], list[h])
            /\ \A h \in (j + 1)..Len(list) : ~FloatLess(list[h], list[j])

LastNewMax(list) ==
    IF list = <<>> THEN 0
    ELSE CHOOSE j \in 1..Len(list) :
            /\ \A h \in 1..(j - 1) : FloatGreater(list[j], list[h])
            /\ \A h \in (j + 1)..Len(list) : ~FloatGreater(list[h], list[j])

(***************************************************************************)
(* C1.  Within a fold, once epoch k has been processed, best_loss is the   *)
(* minimum of the train losses of epochs 1..k, best_eval_loss the minimum  *)
(* of the eval losses of epochs 1..k and max_r2 the maximum of the eval R2 *)
(* of epochs 1..k; and a step that changes one of the three trackers       *)
(* leaves the other two as they were.                                      *)
(***************************************************************************)
C1_BestSoFar ==
    (pc \in {"loop", "summary"} /\ epoch >= 1) =>
        /\ Len(FoldTrainRows) = epoch /\ Len(FoldEvalRows) = epoch
        /\ IsMin(best_loss, Column(FoldTrainRows, 2))
        /\ IsMin(best_eval_loss, Column(FoldEvalRows, 2))
        /\ IsMax(max_r2, Column(FoldEvalRows, 3))

C1_Independent ==
    (InFold /\ pc # "summary") =>
        /\ (best_loss' # best_loss => UNCHANGED <<best_eval_loss, max_r2>>)
        /\ (best_eval_loss' # best_eval_loss => UNCHANGED <<best_loss, max_r2>>)
        /\ (max_r2' # max_r2 => UNCHANGED <<best_loss, best_eval_loss>>)

Tags == {"last", "best_eval_loss", "best"}

\* the checkpoint of this fold with the tag holds version v (0: no such file)
Holds(fold, name, v) ==
    IF v = 0 THEN CkptPath(fold, name) \notin DOMAIN ckpt
    ELSE /\ CkptPath(fold, name) \in DOMAIN ckpt
         /\ ckpt[CkptPath(fold, name)] = [model_state |-> v]

\* rows fold number f appended to the evaluation log, once it has finished
RowsOfFold(rows, f) == SubSeq(rows, (f - 1) * num_epoch + 1, f * num_epoch)

EvalRowsOfFold(f) == RowsOfFold(Rows(eval_log, EvalLogPath(f, num_epoch)), f)

\* eval losses / R2 values the selection has already compared in this fold
LossesCompared ==
    Column(FoldEvalRows, 2) \o
        (IF pc \in {"best_r2", "eval_log"} THEN <<eval_res.avg_loss>> ELSE <<>>)

R2Compared ==
    Column(FoldEvalRows, 3) \o (IF pc = "eval_log" THEN <<eval_res.r2>> ELSE <<>>)

EvalsCompared ==
    FoldEvalRows \o
        (IF pc = "eval_log"
         THEN << <<epoch, eval_res.avg_loss, eval_res.r2, eval_res.mse, eval_res.corr>> >>
         ELSE <<>>)

EpochsInOrder(rows) ==
    /\ Len(rows) = num_epoch
    /\ \A k \in 1..Len(rows) : rows[k][1] = k

C4_PerFoldLogs ==
    pc = "summary" =>
        /\ EpochsInOrder(Rows(train_log, TrainLogPath(i + 1, num_epoch)))
        /\ EpochsInOrder(Rows(eval_log, EvalLogPath(i + 1, num_epoch)))

(***************************************************************************)
(* C5.  The folds 0..9 are constructed in this order, each once; the       *)
(* summary CSV has one row per finished fold, (fold number, best R2,       *)
(* paired MSE, paired correlation) with the triple that fold returned;     *)
(* the row of a fold is written after its last epoch and before the next   *)
(* fold's model is constructed; a completed run has exactly 10 rows.       *)
(***************************************************************************)
\* what train_and_validate returned for the finished fold number f
ReturnedTriple(f) ==
    IF num_epoch = 0 THEN <<F(SentinelLow), F(SentinelHigh), F(SentinelLow)>>
    ELSE LET rows == EvalRowsOfFold(f)
             row == rows[LastNewMax(Column(rows, 3))]
         IN  <<row[3], row[4], row[5]>>

C5_FoldsAndSummary ==
    /\ Len(built) <= NumFolds
    /\ \A k \in 1..Len(built) : built[k] = k - 1
    /\ Len(best_result) \in {Len(built) - 1, Len(built)}
    /\ Len(best_result) = Len(built) => pc \in {"main_loop", "done"}
    /\ pc = "summary" => epoch = num_epoch
    /\ \A k \in 1..Len(best_result) :
          LET t == ReturnedTriple(k)
          IN  /\ best_result[k] = <<k, t[1], t[2], t[3]>>
              /\ r2_list[k] = t[1] /\ mse_list[k] = t[2] /\ corr_list[k] = t[3]
    /\ Len(r2_list) = Len(best_result)
    /\ Len(mse_list) = Len(best_result)
    /\ Len(corr_list) = Len(best_result)
    /\ pc = "done" => Len(best_result) = NumFolds /\ built = [k \in 1..NumFolds |-> k - 1]

\* a completed run of two or more epochs whose folds returned different triples
C5_Witness ==
    /\ pc = "done" /\ num_epoch >= 2
    /\ Len(best_result) = NumFolds
    /\ \E k \in 2..NumFolds : best_result[1][2] # best_result[k][2]

(***************************************************************************)
(* C6.  A failure in a fold ends the run: once an exception has been       *)
(* raised nothing more happens (no retry, no later fold, no further row),  *)
(* the failed fold has no summary row, the rows of the folds finished      *)
(* before stay, and no cross-fold average is reported.                     *)
(***************************************************************************)
C6_Aborted ==
    exc # None =>
        /\ pc = "aborted"
        /\ average = <<>>
        /\ Len(built) = i + 1
        /\ Len(best_result) = i
        /\ \A k \in 1..i : best_result[k][1] = k

C6_FailureAborts == [](C6_Aborted) /\ [][exc # None => UNCHANGED vars]_vars

\* an exception inside an epoch of the third fold or later
C6_Witness ==
    /\ exc = "ValueError" /\ i >= 2 /\ epoch >= 1
    /\ Len(best_result) = i

(***************************************************************************)
(* C7.  A degenerate metric never ends the run and never counts as an      *)
(* improvement: no ValueError of score_reg reaches main(), and no          *)
(* undefined value is stored in a tracker, returned by a fold or written   *)
(* to the summary.                                                         *)
(***************************************************************************)
C7_DegenerateIsNoImprovement ==
    /\ exc # "ValueError"
    /\ InFold => NaN \notin {max_r2, min_mse, max_corr, best_loss, best_eval_loss}
    /\ \A k \in 1..Len(ret) : ret[k] # NaN
    /\ \A k \in 1..Len(best_result) : NaN \notin {best_result[k][2], best_result[k][3], best_result[k][4]}

(***************************************************************************)
(* MaskedHuberLoss, lines 48-57.  Tensors are flattened to sequences.      *)
(***************************************************************************)
\* longest tensor drawn
MaxLen == 3

PredVals == {F(0), Ratio(1, 2), F(3)}

LabelVals == {F(0), F(1)}

ValidVals == {F(0), F(1)}

\* nn.HuberLoss() at line 716: the default delta = 1.0
Delta == F(1)

Half == Ratio(1, 2)

\* the elementwise Huber loss of nn.HuberLoss for the residual d
Huber(d) ==
    IF ~FloatGreater(FloatAbs(d), Delta)
    THEN FloatMul(Half, FloatMul(d, d))
    ELSE FloatMul(Delta, FloatSub(FloatAbs(d), FloatMul(Half, Delta)))

\* tensor.mean(): the sum over all elements divided by their number
TensorMean(t) == IF Len(t) = 0 THEN NaN ELSE FloatDivInt(FloatSum(t), Len(t))

\* nn.HuberLoss.forward under self.reduction
HuberLossForward(pred, label, reduction) ==
    LET each == [k \in 1..Len(label) |-> Huber(FloatSub(pred[k], label[k]))]
    IN  IF reduction = "none" THEN each ELSE TensorMean(each)

\* the loss averaged over the valid positions only
MaskedHuberLossForward_ValidMean(pred, label, valid_sequence) ==
    LET each == HuberLossForward(pred, label, "none")
        kept == {k \in 1..Len(label) : valid_sequence[k] = F(1)}
        weighted == [k \in 1..Len(label) |-> FloatMul(each[k], valid_sequence[k])]
    IN  IF kept = {} THEN F(0) ELSE FloatDivInt(FloatSum(weighted), Cardinality(kept))

\* lines 49-57
MaskedHuberLossForward(pred, label, valid_sequence) ==
    LET ones_like == [k \in 1..Len(label) |-> F(1)]
        weights == [k \in 1..Len(label) |-> FloatMul(ones_like[k], valid_sequence[k])]
        reduction == "none"
        unweighted_loss == HuberLossForward(pred, label, reduction)
        weighted == [k \in 1..Len(label) |-> FloatMul(unweighted_loss[k], weights[k])]
    IN  TensorMean(weighted)

\* a call of forward on tensors of one shape
LossCall ==
    /\ lpc = "call"
    /\ \E n \in 1..MaxLen :
          /\ l_pred \in [1..n -> PredVals]
          /\ l_label \in [1..n -> LabelVals]
          /\ l_valid \in [1..n -> ValidVals]
    /\ l_out = NaN

Forward ==
    /\ lpc = "call"
    /\ l_out' = MaskedHuberLossForward(l_pred, l_label, l_valid)
    /\ lpc' = "returned"
    /\ UNCHANGED <<l_pred, l_label, l_valid>>
    /\ UNCHANGED <<runVars, passVars, featVars>>

InitLoss == RunStart(0) /\ LossCall /\ PassIdle /\ FeatIdle

NextLoss == Forward

SpecLoss == InitLoss /\ [][NextLoss]_vars

(***************************************************************************)
(* C8.  MaskedHuberLoss.forward returns the sum over the valid positions   *)
(* of the per-position Huber loss divided by the total number of           *)
(* elements; it is the plain Huber mean when every position is valid and   *)
(* 0 when every position is invalid.                                       *)
(***************************************************************************)
RECURSIVE SumOver(_, _)
SumOver(S, f) ==
    IF S = {} THEN F(0)
    ELSE LET k == CHOOSE x \in S : TRUE
         IN  FloatAdd(f[k], SumOver(S \ {k}, f))

ValidPositions(valid) == {k \in 1..Len(valid) : valid[k] = F(1)}

C8_MaskedMean ==
    lpc = "returned" =>
        LET n == Len(l_label)
            huber == [k \in 1..n |-> Huber(FloatSub(l_pred[k], l_label[k]))]
        IN  /\ l_out = FloatDivInt(SumOver(ValidPositions(l_valid), huber), n)
            /\ ValidPositions(l_valid) = 1..n =>
                  l_out = HuberLossForward(l_pred, l_label, "mean")
            /\ ValidPositions(l_valid) = {} => l_out = F(0)

\* some positions valid, some not, and the mean over the valid ones alone differs
C8_Witness ==
    /\ lpc = "returned"
    /\ ValidPositions(l_valid) # {}
    /\ ValidPositions(l_valid) # 1..Len(l_valid)
    /\ l_out # F(0)
    /\ l_out # MaskedHuberLossForward_ValidMean(l_pred, l_label, l_valid)

(***************************************************************************)
(* score_reg, lines 101-105: r2_score, mean_squared_error and pearsonr on  *)
(* two equally long sequences of floats.                                   *)
(***************************************************************************)
\* sum of (a[k] - ma) * (b[k] - mb)
CoDeviation(a, ma, b, mb) ==
    FloatSum([k \in 1..Len(a) |-> FloatMul(FloatSub(a[k], ma), FloatSub(b[k], mb))])

\* sign(c) * sqrt(q) for a rational q >= 0, kept exact: <<"root", sign * numerator, denominator>>
SignedRoot(c, q) ==
    <<"root", (IF FloatLess(c, F(0)) THEN 0 - 1 ELSE 1) * q[2], q[3]>>

\* sklearn.metrics.r2_score(y_true, y_pred): a constant y_true gives 1.0 for a
\* perfect prediction and 0.0 otherwise
R2Score(y_true, y_pred) ==
    LET n == Len(y_true)
        mean == FloatDivInt(FloatSum(y_true), n)
        residual == [k \in 1..n |-> FloatSub(y_true[k], y_pred[k])]
        numerator == CoDeviation(residual, F(0), residual, F(0))
        denominator == CoDeviation(y_true, mean, y_true, mean)
    IN  IF denominator = F(0)
        THEN (IF numerator = F(0) THEN F(1) ELSE F(0))
        ELSE FloatSub(F(1), FloatDiv(numerator, denominator))

\* sklearn.metrics.mean_squared_error(y_true, y_pred)
MeanSquaredError(y_true, y_pred) ==
    LET residual == [k \in 1..Len(y_true) |-> FloatSub(y_true[k], y_pred[k])]
    IN  FloatDivInt(CoDeviation(residual, F(0), residual, F(0)), Len(y_true))

\* scipy.stats.pearsonr(x, y)[0]: NaN when x or y is constant
Pearsonr(x, y) ==
    LET n == Len(x)
        mx == FloatDivInt(FloatSum(x), n)
        my == FloatDivInt(FloatSum(y), n)
        cov == CoDeviation(x, mx, y, my)
        vx == CoDeviation(x, mx, x, mx)
        vy == CoDeviation(y, my, y, my)
    IN  IF vx = F(0) \/ vy = F(0) THEN NaN
        ELSE SignedRoot(cov, FloatDiv(FloatMul(cov, cov), FloatMul(vx, vy)))

\* the three library calls raise ValueError on fewer than 2 points (r2_score and
\* mean_squared_error on none, pearsonr on fewer than 2)
ScoreReg(pred, label) ==
    IF Len(label) < 2
    THEN [exc |-> "ValueError", r2 |-> NaN, mse |-> NaN, corr |-> NaN]
    ELSE [exc |-> None,
          r2 |-> R2Score(label, pred),
          mse |-> MeanSquaredError(label, pred),
          corr |-> Pearsonr(label, pred)]

(***************************************************************************)
(* train_epoch (lines 144-212) and evaluate (lines 215-275) over a loader. *)
(* A batch is the sequence of its positions, each with the model input x,  *)
(* the target density y and the validity flag v.                           *)
(***************************************************************************)
\* most batches in a loader
MaxBatches == 2

Position(x, y, v) == [x |-> x, y |-> y, v |-> v]

Batches ==
    { << Position(0, 0, 1), Position(1, 2, 1), Position(2, 1, 1) >>,   \* all valid
      << Position(1, 1, 1), Position(2, 0, 0), Position(0, 2, 1) >>,   \* one padded
      << Position(2, 2, 1), Position(0, 0, 0), Position(1, 0, 0) >>,   \* one valid
      << Position(0, 1, 1), Position(2, 1, 1), Position(1, 1, 0) >>,   \* constant targets
      << Position(1, 0, 1), Position(1, 2, 1), Position(1, 1, 1) >>,   \* constant predictions
      << Position(0, 0, 0), Position(1, 1, 0), Position(2, 2, 0) >> }  \* none valid

\* what dropout adds to the outputs of one forward pass in training mode
Noise == {0, 1}

\* CodenBert.forward and squeeze(-1), lines 76-90 and 182: deterministic in the
\* parameters and the input in inference mode, perturbed by dropout in training mode
ModelForward(w, training, noise, batch) ==
    [k \in 1..Len(batch) |-> F(batch[k].x + w + (IF training = "train" THEN noise ELSE 0))]

Density(batch) == [k \in 1..Len(batch) |-> F(batch[k].y)]

ValidSequence(batch) == [k \in 1..Len(batch) |-> F(batch[k].v)]

\* the mask applied to nothing: every position selected
RECURSIVE MaskSelect_All(_, _)
MaskSelect_All(t, valid_sequence) ==
    IF Len(t) = 0 THEN <<>>
    ELSE <<Head(t)>> \o MaskSelect_All(Tail(t), Tail(valid_sequence))

\* t[valid_sequence == 1], lines 186-187 and 255-256
RECURSIVE MaskSelect(_, _)
MaskSelect(t, valid_sequence) ==
    IF Len(t) = 0 THEN <<>>
    ELSE (IF Head(valid_sequence) = F(1) THEN <<Head(t)>> ELSE <<>>)
            \o MaskSelect(Tail(t), Tail(valid_sequence))

\* sum(list) / len(list) on floats, len(list) > 0
PyMean(list) == FloatDivInt(FloatSum(list), Len(list))

\* sum(list) / len(list) on correlations: NaN if one is NaN, else kept as the
\* exact expression (list[1] + ... + list[n]) / n
PyMeanRoots(list) ==
    IF \E k \in 1..Len(list) : list[k] = NaN THEN NaN ELSE <<"mean", list, Len(list)>>

\* model.train(), line 145
TrainMode(training) == "train"

\* evaluate leaving the model in the mode it finds it in
EvalMode_Keep(training) == training

\* model.eval(), line 216
EvalMode(training) == "eval"

Returned(res) == [exc |-> None, val |-> res]

Raised(e) == [exc |-> e, val |-> Unset]

\* lines 145-152
TrainEpochEnter ==
    /\ ppc = "train_call"
    /\ p_mode' = TrainMode(p_mode)
    /\ te_loss_list' = <<>> /\ te_r2_list' = <<>> /\ te_mse_list' = <<>> /\ te_corr_list' = <<>>
    /\ p_k' = 1
    /\ ppc' = "train_loop"
    /\ UNCHANGED <<loader, p_max_r2, p_w, p_opt, ev_loss_list, ev_trues, ev_preds, te_ret,
                   ev_rets, p_plot>>
    /\ UNCHANGED <<runVars, lossVars, featVars>>

\* lines 153-203: one batch; score_reg may raise before the optimizer step
TrainBatch ==
    /\ ppc = "train_loop" /\ p_k <= Len(loader)
    /\ \E noise \in Noise :
        LET batch == loader[p_k]
            outputs == ModelForward(p_w, p_mode, noise, batch)
            density == Density(batch)
            valid_sequence == ValidSequence(batch)
            tr_loss == MaskedHuberLossForward(outputs, density, valid_sequence)
            y_pred == MaskSelect(outputs, valid_sequence)
            y_true == MaskSelect(density, valid_sequence)
            sc == ScoreReg(y_pred, y_true)
        IN  IF sc.exc # None
            THEN /\ te_ret' = Raised(sc.exc)
                 /\ ppc' = "eval_call"
                 /\ UNCHANGED <<p_w, p_opt, p_k, te_loss_list, te_r2_list, te_mse_list,
                                te_corr_list>>
            ELSE /\ te_r2_list' = Append(te_r2_list, sc.r2)
                 /\ te_mse_list' = Append(te_mse_list, sc.mse)
                 /\ te_corr_list' = Append(te_corr_list, sc.corr)
                 /\ p_w' = p_w + 1
                 /\ p_opt' = p_opt + 1
                 /\ te_loss_list' = Append(te_loss_list, tr_loss)
                 /\ p_k' = p_k + 1
                 /\ UNCHANGED <<te_ret, ppc>>
    /\ UNCHANGED <<loader, p_max_r2, p_mode, ev_loss_list, ev_trues, ev_preds, ev_rets,
                   p_plot>>
    /\ UNCHANGED <<runVars, lossVars, featVars>>

\* lines 205-212: the division raises on an empty loader
TrainEpochReturn ==
    /\ ppc = "train_loop" /\ p_k > Len(loader)
    /\ te_ret' = IF Len(te_loss_list) = 0 THEN Raised("ZeroDivisionError")
                 ELSE Returned(Result(PyMean(te_loss_list), PyMean(te_r2_list),
                                      PyMean(te_mse_list), PyMeanRoots(te_corr_list)))
    /\ ppc' = "eval_call"
    /\ UNCHANGED <<loader, p_max_r2, p_w, p_opt, p_mode, p_k, te_loss_list, te_r2_list,
                   te_mse_list, te_corr_list, ev_loss_list, ev_trues, ev_preds, ev_rets,
                   p_plot>>
    /\ UNCHANGED <<runVars, lossVars, featVars>>

\* lines 216-222
EvaluateEnter ==
    /\ ppc = "eval_call"
    /\ p_mode' = EvalMode(p_mode)
    /\ ev_loss_list' = <<>> /\ ev_trues' = <<>> /\ ev_preds' = <<>>
    /\ p_k' = 1
    /\ ppc' = "eval_loop"
    /\ UNCHANGED <<loader, p_max_r2, p_w, p_opt, te_loss_list, te_r2_list, te_mse_list,
                   te_corr_list, te_ret, ev_rets, p_plot>>
    /\ UNCHANGED <<runVars, lossVars, featVars>>

\* lines 224-265: one batch
EvaluateBatch ==
    /\ ppc = "eval_loop" /\ p_k <= Len(loader)
    /\ \E noise \in Noise :
        LET batch == loader[p_k]
            outputs == ModelForward(p_w, p_mode, noise, batch)
            density == Density(batch)
            valid_sequence == ValidSequence(batch)
            eval_loss == MaskedHuberLossForward(outputs, density, valid_sequence)
            y_pred == MaskSelect(outputs, valid_sequence)
            y_true == MaskSelect(density, valid_sequence)
        IN  /\ ev_trues' = ev_trues \o y_true
            /\ ev_preds' = ev_preds \o y_pred
            /\ ev_loss_list' = Append(ev_loss_list, eval_loss)
    /\ p_k' = p_k + 1
    /\ UNCHANGED <<loader, p_max_r2, ppc, p_w, p_opt, p_mode, te_loss_list, te_r2_list,
                   te_mse_list, te_corr_list, te_ret, ev_rets, p_plot>>
    /\ UNCHANGED <<runVars, lossVars, featVars>>

\* lines 267-275; evaluate is then called a second time on the same arguments
EvaluateReturn ==
    /\ ppc = "eval_loop" /\ p_k > Len(loader)
    /\ LET sc == ScoreReg(ev_preds, ev_trues)
       IN  IF sc.exc # None
           THEN /\ ev_rets' = Append(ev_rets, Raised(sc.exc))
                /\ UNCHANGED p_plot
           ELSE IF Len(ev_loss_list) = 0
           THEN /\ ev_rets' = Append(ev_rets, Raised("ZeroDivisionError"))
                /\ UNCHANGED p_plot
           ELSE /\ p_plot' = IF PlotDue(sc.r2, p_max_r2) THEN <<sc.r2>> ELSE p_plot
                /\ ev_rets' = Append(ev_rets,
                                     Returned(Result(PyMean(ev_loss_list), sc.r2, sc.mse,
                                                     sc.corr)))
    /\ ppc' = IF ev_rets = <<>> THEN "eval_call" ELSE "done"
    /\ UNCHANGED <<loader, p_max_r2, p_w, p_opt, p_mode, p_k, te_loss_list, te_r2_list,
                   te_mse_list, te_corr_list, ev_loss_list, ev_trues, ev_preds, te_ret>>
    /\ UNCHANGED <<runVars, lossVars, featVars>>

\* a loader, evaluate's max_r2, a fresh model; train_epoch is called first
PassCall ==
    /\ \E n \in 0..MaxBatches : loader \in [1..n -> Batches]
    /\ p_max_r2 \in {F(SentinelLow), F(0)}
    /\ ppc = "train_call"
    /\ p_w = 0 /\ p_opt = 0 /\ p_mode = "eval" /\ p_k = 0
    /\ te_loss_list = <<>> /\ te_r2_list = <<>> /\ te_mse_list = <<>> /\ te_corr_list = <<>>
    /\ ev_loss_list = <<>> /\ ev_trues = <<>> /\ ev_preds = <<>>
    /\ te_ret = <<>>
    /\ ev_rets = <<>>
    /\ p_plot = <<>>

InitPass == RunStart(0) /\ LossIdle /\ PassCall /\ FeatIdle

NextPass ==
    \/ TrainEpochEnter
    \/ TrainBatch
    \/ TrainEpochReturn
    \/ EvaluateEnter
    \/ EvaluateBatch
    \/ EvaluateReturn

SpecPass == InitPass /\ [][NextPass]_vars

(***************************************************************************)
(* C9.  evaluate pools the valid positions of every batch, each once, in   *)
(* batch order, predictions aligned with targets, computes R2, MSE and     *)
(* correlation once over the pool and averages only the loss per batch;    *)
(* train_epoch computes R2, MSE and correlation on the valid positions of  *)
(* each batch and returns the means of the per-batch values, as for the    *)
(* loss.                                                                   *)
(***************************************************************************)
\* the valid positions of a batch, in order
Kept(batch) == SelectSeq(batch, LAMBDA q : q.v = 1)

\* predictions / targets at the valid positions of batches 1..n, in batch order,
\* for the parameters w(k) and the mode in force at batch k
RECURSIVE PooledPreds(_, _, _, _)
PooledPreds(n, w(_), training, noise) ==
    IF n = 0 THEN <<>>
    ELSE PooledPreds(n - 1, w, training, noise)
            \o ModelForward(w(n), training, noise, Kept(loader[n]))

RECURSIVE PooledTrues(_)
PooledTrues(n) == IF n = 0 THEN <<>> ELSE PooledTrues(n - 1) \o Density(Kept(loader[n]))

\* evaluate: the parameters stay those of the call
EvalW(k) == p_w

\* train_epoch: one optimizer step per batch, from a fresh model
TrainW(k) == k - 1

BatchLoss(k, w(_), training, noise) ==
    MaskedHuberLossForward(ModelForward(w(k), training, noise, loader[k]),
                           Density(loader[k]), ValidSequence(loader[k]))

\* what evaluate must return on the whole loader
PooledResult ==
    LET preds == PooledPreds(Len(loader), EvalW, "eval", 0)
        trues == PooledTrues(Len(loader))
        losses == [k \in 1..Len(loader) |-> BatchLoss(k, EvalW, "eval", 0)]
    IN  IF Len(trues) < 2 THEN Raised("ValueError")
        ELSE Returned(Result(PyMean(losses), R2Score(trues, preds),
                             MeanSquaredError(trues, preds), Pearsonr(trues, preds)))

\* the per-batch values of batch k of the training pass, under the dropout noise
BatchValues(k, noise) ==
    LET preds == ModelForward(TrainW(k), "train", noise, Kept(loader[k]))
        trues == Density(Kept(loader[k]))
        sc == ScoreReg(preds, trues)
    IN  <<BatchLoss(k, TrainW, "train", noise), sc.r2, sc.mse, sc.corr, sc.exc>>

\* m is the arithmetic mean of the list
IsMeanOf(m, list) == Len(list) > 0 /\ FloatMul(m, F(Len(list))) = FloatSum(list)

C9_Aggregation ==
    /\ ppc = "eval_loop" =>
          /\ ev_preds = PooledPreds(p_k - 1, EvalW, "eval", 0)
          /\ ev_trues = PooledTrues(p_k - 1)
          /\ Len(ev_loss_list) = p_k - 1
    /\ \A c \in 1..Len(ev_rets) : ev_rets[c] = PooledResult
    /\ (te_ret # <<>> /\ te_ret.exc = None) =>
          /\ Len(te_loss_list) = Len(loader) /\ Len(te_r2_list) = Len(loader)
          /\ Len(te_mse_list) = Len(loader) /\ Len(te_corr_list) = Len(loader)
          /\ \A k \in 1..Len(loader) :
                \E noise \in Noise :
                    <<te_loss_list[k], te_r2_list[k], te_mse_list[k], te_corr_list[k], None>>
                        = BatchValues(k, noise)
          /\ IsMeanOf(te_ret.val.avg_loss, te_loss_list)
          /\ IsMeanOf(te_ret.val.r2, te_r2_list)
          /\ IsMeanOf(te_ret.val.mse, te_mse_list)
          /\ te_ret.val.corr = PyMeanRoots(te_corr_list)

\* both passes returned on two batches with a padded position, and the mean of the
\* per-batch R2 of the training pass is not the R2 over its pooled outputs
C9_Witness ==
    /\ ppc = "done" /\ Len(loader) = 2
    /\ te_ret.exc = None /\ ev_rets[1].exc = None
    /\ \E k \in 1..2 : Len(Kept(loader[k])) < Len(loader[k])
    /\ \A k \in 1..2 : te_r2_list[k] = BatchValues(k, 0)[2]
    /\ te_ret.val.r2 # R2Score(PooledTrues(2), PooledPreds(2, TrainW, "train", 0))

(***************************************************************************)
(* C10.  Two calls of evaluate in a row, on the same model, loader and     *)
(* max_r2, return the same (avg_loss, r2, mse, corr) or raise the same     *)
(* error, and no step of evaluate changes the model parameters, the        *)
(* optimizer state, the loader or the trackers.                            *)
(***************************************************************************)
C10_SameResult == ppc = "done" => ev_rets[1] = ev_rets[2]

C10_NoEffect ==
    ppc \in {"eval_call", "eval_loop"} =>
        UNCHANGED <<p_w, p_opt, loader, p_max_r2, max_r2, min_mse, max_corr, best_loss,
                    best_eval_loss>>

C10_Idempotent == [](C10_SameResult) /\ [][C10_NoEffect]_vars

\* evaluate returned metrics twice on a model that two training batches had changed
C10_Witness ==
    /\ ppc = "done"
    /\ ev_rets[1].exc = None /\ ev_rets[2].exc = None
    /\ p_w = 2 /\ p_opt = 2
    /\ p_plot # <<>>

(***************************************************************************)
(* The auxiliary feature groups: the flags, the width of the projection    *)
(* layer, the paths and the tensor handed to the model (lines 61-90,       *)
(* 153-177, 224-249, 291-305, 605-619, 670).  A tensor of shape (B, N, W)  *)
(* is its N and the sequence of its W feature columns, each column named   *)
(* by the batch entry it comes from and its index there; None is           *)
(* NoTensor.                                                               *)
(***************************************************************************)
Tensor(n, cols) == [kind |-> "tensor", n |-> n, cols |-> cols]

NoTensor == [kind |-> "None", n |-> 0, cols |-> <<>>]

\* widths of batch['aa'], batch['pro_feature'] and batch['ss'] (dataset/dataset.py)
AaWidth == 21

ProWidth == 6

SsWidth == 8

Columns(key, width) == [j \in 1..width |-> <<key, j>>]

\* the auxiliary entries of a batch of sequences of length n
BatchAux(n) ==
    [aa          |-> Tensor(n, Columns("aa", AaWidth)),
     pro_feature |-> Tensor(n, Columns("pro_feature", ProWidth)),
     ss          |-> Tensor(n, Columns("ss", SsWidth))]

\* lines 607-616
AdditionalFeatureDim(a) ==
    LET d0 == 0
        d1 == IF a.aa THEN d0 + 21 ELSE d0
        d2 == IF a.protein THEN d1 + 6 ELSE d1
        d3 == IF a.ss THEN d2 + 8 ELSE d2
    IN  d3

\* lines 605-619
BestResultPath(a) ==
    <<"best_results">> \o Tag(a.aa, "_aa") \o Tag(a.protein, "_protein")
        \o Tag(a.ss, "_ss") \o <<".csv">>

\* torch.cat(features, dim=-1); an empty list is an error
TorchCat(features) ==
    IF features = <<>> THEN [kind |-> "RuntimeError", n |-> 0, cols |-> <<>>]
    ELSE Tensor(features[1].n,
                IF Len(features) = 1 THEN features[1].cols
                ELSE IF Len(features) = 2 THEN features[1].cols \o features[2].cols
                ELSE features[1].cols \o features[2].cols \o features[3].cols)

\* features.append(t), when the flag is set
AppendIf(flag, t) == IF flag THEN <<t>> ELSE <<>>

\* train_epoch, lines 159-174
TrainFeatures(a, batch) ==
    IF ~a.use_additional_feature THEN NoTensor
    ELSE TorchCat(AppendIf(a.aa, batch.aa) \o AppendIf(a.protein, batch.pro_feature)
                  \o AppendIf(a.ss, batch.ss))

\* the groups appended as ss, protein, aa
EvalFeatures_Reversed(a, batch) ==
    IF ~a.use_additional_feature THEN NoTensor
    ELSE TorchCat(AppendIf(a.ss, batch.ss) \o AppendIf(a.protein, batch.pro_feature)
                  \o AppendIf(a.aa, batch.aa))

\* evaluate, lines 231-246
EvalFeatures(a, batch) ==
    IF ~a.use_additional_feature THEN NoTensor
    ELSE TorchCat(AppendIf(a.aa, batch.aa) \o AppendIf(a.protein, batch.pro_feature)
                  \o AppendIf(a.ss, batch.ss))

\* CodenBert.forward, lines 82-83: the projection layer is applied only when
\* use_additional_feature is set, and needs a tensor of its in_features columns
ForwardError(a, in_features, t) ==
    IF ~a.use_additional_feature THEN None
    ELSE IF t.kind # "tensor" THEN "TypeError"
    ELSE IF Len(t.cols) # in_features THEN "RuntimeError"
    ELSE None

HandedBy(f) == Len(SelectSeq(handed, LAMBDA h : h.by = f))

\* main() starts with the flags of the command line
FeatCall ==
    /\ \E a \in BOOLEAN, p \in BOOLEAN, s \in BOOLEAN : args = Flags(a, p, s)
    /\ fpc = "main"
    /\ f_exc = None
    /\ additional_feature_dim = 0
    /\ best_result_path = <<>>
    /\ additional_feature_layer = 0
    /\ train_log_path = <<>>
    /\ eval_log_path = <<>>
    /\ handed = <<>>

\* main(), lines 605-619
MainPaths ==
    /\ fpc = "main"
    /\ additional_feature_dim' = AdditionalFeatureDim(args)
    /\ best_result_path' = BestResultPath(args)
    /\ fpc' = "build"
    /\ UNCHANGED <<args, f_exc, additional_feature_layer, train_log_path, eval_log_path,
                   handed>>
    /\ UNCHANGED <<runVars, lossVars, passVars>>

\* line 670 and CodenBert.__init__, line 70
BuildModel ==
    /\ fpc = "build"
    /\ additional_feature_layer' = additional_feature_dim
    /\ fpc' = "log_paths"
    /\ UNCHANGED <<args, f_exc, additional_feature_dim, best_result_path, train_log_path,
                   eval_log_path, handed>>
    /\ UNCHANGED <<runVars, lossVars, passVars>>

\* train_and_validate, lines 291-305
LogPaths ==
    /\ fpc = "log_paths"
    /\ train_log_path' = TrainLogPath(i + 1, num_epoch)
    /\ eval_log_path' = EvalLogPath(i + 1, num_epoch)
    /\ fpc' = "train"
    /\ UNCHANGED <<args, f_exc, additional_feature_dim, best_result_path,
                   additional_feature_layer, handed>>
    /\ UNCHANGED <<runVars, lossVars, passVars>>

\* train_epoch, lines 153-177: one batch, up to the forward call
TrainForward ==
    /\ fpc = "train"
    /\ \E n \in 1..MaxLen :
         LET t == TrainFeatures(args, BatchAux(n))
             e == ForwardError(args, additional_feature_layer, t)
         IN  /\ handed' = Append(handed, [by |-> "train_epoch", additional_features |-> t])
             /\ f_exc' = e
             /\ fpc' = IF e # None THEN "aborted"
                       ELSE IF HandedBy("train_epoch") + 1 < MaxBatches THEN "train"
                       ELSE "eval"
    /\ UNCHANGED <<args, additional_feature_dim, best_result_path,
                   additional_feature_layer, train_log_path, eval_log_path>>
    /\ UNCHANGED <<runVars, lossVars, passVars>>

\* evaluate, lines 224-249: one batch, up to the forward call
EvalForward ==
    /\ fpc = "eval"
    /\ \E n \in 1..MaxLen :
         LET t == EvalFeatures(args, BatchAux(n))
             e == ForwardError(args, additional_feature_layer, t)
         IN  /\ handed' = Append(handed, [by |-> "evaluate", additional_features |-> t])
             /\ f_exc' = e
             /\ fpc' = IF e # None THEN "aborted"
                       ELSE IF HandedBy("evaluate") + 1 < MaxBatches THEN "eval"
                       ELSE "done"
    /\ UNCHANGED <<args, additional_feature_dim, best_result_path,
                   additional_feature_layer, train_log_path, eval_log_path>>
    /\ UNCHANGED <<runVars, lossVars, passVars>>

InitFeat == RunStart(0) /\ LossIdle /\ PassIdle /\ FeatCall

NextFeat ==
    \/ MainPaths
    \/ BuildModel
    \/ LogPaths
    \/ TrainForward
    \/ EvalForward

SpecFeat == InitFeat /\ [][NextFeat]_vars

(***************************************************************************)
(* C11.  With at least one of aa, protein, ss set, every tensor handed to  *)
(* the model by train_epoch and by evaluate consists of the columns of     *)
(* exactly the enabled groups, in the order aa, protein, ss; its width is  *)
(* 21 + 6 + 8 counted over the enabled groups and is the                   *)
(* additional_feature_dim the projection layer was built with (so no       *)
(* forward call fails); the suffixes of the two log paths and of the       *)
(* summary path name the same groups in the same order.  With no flag set  *)
(* the model is handed None.                                               *)
(***************************************************************************)
Enabled == SelectSeq(<<"aa", "protein", "ss">>, LAMBDA g : args[g])

GroupOf == [aa |-> "aa", pro_feature |-> "protein", ss |-> "ss"]

GroupWidth == [aa |-> 21, protein |-> 6, ss |-> 8]

GroupTag == [aa |-> "_aa", protein |-> "_protein", ss |-> "_ss"]

EnabledColumns(n) ==
    SelectSeq(BatchAux(n).aa.cols \o BatchAux(n).pro_feature.cols \o BatchAux(n).ss.cols,
              LAMBDA c : args[GroupOf[c[1]]])

RECURSIVE WidthOf(_)
WidthOf(groups) ==
    IF groups = <<>> THEN 0 ELSE GroupWidth[Head(groups)] + WidthOf(Tail(groups))

EnabledWidth == WidthOf(Enabled)

EnabledTags == [k \in 1..Len(Enabled) |-> GroupTag[Enabled[k]]]

SuffixOf(path, stem) == SubSeq(path, stem + 1, Len(path) - 1)

C11_Features ==
    /\ f_exc = None
    /\ \A k \in 1..Len(handed) :
         LET h == handed[k].additional_features
         IN  IF Enabled = <<>> THEN h = NoTensor
             ELSE /\ h.kind = "tensor"
                  /\ h.cols = EnabledColumns(h.n)
                  /\ Len(h.cols) = EnabledWidth
                  /\ Len(h.cols) = additional_feature_dim
                  /\ Len(h.cols) = additional_feature_layer
    /\ best_result_path # <<>> =>
         /\ SuffixOf(best_result_path, 1) = EnabledTags
         /\ best_result_path[Len(best_result_path)] = ".csv"
    /\ train_log_path # <<>> =>
         /\ SuffixOf(train_log_path, 2) = EnabledTags
         /\ SuffixOf(eval_log_path, 2) = EnabledTags
         /\ train_log_path[Len(train_log_path)] = ".csv"
         /\ eval_log_path[Len(eval_log_path)] = ".csv"

\* aa and ss enabled, protein not: both passes handed 29-column tensors to the model
C11_Witness ==
    /\ fpc = "done"
    /\ args.aa /\ ~args.protein /\ args.ss
    /\ HandedBy("train_epoch") > 1 /\ HandedBy("evaluate") > 1
    /\ \A k \in 1..Len(handed) : Len(handed[k].additional_features.cols) = 29
    /\ handed[1].additional_features.n # handed[Len(handed)].additional_features.n
    /\ train_log_path = <<"logs/train_log", 0, "_aa", "_ss", ".csv">>

(***************************************************************************)
(* The run on evaluation results of any finite size: an R2 is at most 1    *)
(* and has no lower bound, a Huber loss and an MSE have no upper bound.    *)
(* The results drawn are an ordinary one, one that equals the initial      *)
(* values of the trackers and one beyond them.                             *)
(***************************************************************************)
Beyond == SentinelHigh + 1

WideEvalOutcomes ==
    {Result(F(4), F(2), F(6), F(1)),
     Result(F(SentinelHigh), F(SentinelLow), F(SentinelHigh), F(0)),
     Result(F(Beyond), F(0 - Beyond), F(Beyond), F(0))}

InitWide ==
    /\ \E n \in 0..MaxEpochs : RunStartOn(n, TrainOutcomes, WideEvalOutcomes)
    /\ LossIdle
    /\ PassIdle
    /\ FeatIdle

SpecWide == InitWide /\ [][Next]_vars

(***************************************************************************)
(* C12.  Every fold starts its epoch loop with the trackers at their       *)
(* initial extremes, whatever the previous fold left, and the first        *)
(* evaluation of the fold, whatever finite R2 and eval loss it returns,    *)
(* becomes the best R2 and the best eval loss and writes the "best" and    *)
(* the "best_eval_loss" checkpoint.                                        *)
(***************************************************************************)
FirstEvaluationCompared == InFold /\ epoch = 1 /\ pc = "eval_log"

C12_FirstEvaluationIsBest ==
    /\ (InFold /\ epoch = 0) =>
         /\ max_r2 = F(SentinelLow)
         /\ min_mse = F(SentinelHigh)
         /\ best_eval_loss = F(SentinelHigh)
         /\ best_loss = F(SentinelHigh)
    /\ (FirstEvaluationCompared /\ eval_res.r2 # NaN /\ eval_res.avg_loss # NaN) =>
         /\ max_r2 = eval_res.r2
         /\ best_eval_loss = eval_res.avg_loss
         /\ Holds(i + 1, "best", 1)
         /\ Holds(i + 1, "best_eval_loss", 1)

(***************************************************************************)
(* C13.  In every epoch of every fold: the training pass, then one step    *)
(* of the learning-rate schedule, then the write of the "last"             *)
(* checkpoint, then the evaluation pass.  The schedule is stepped only     *)
(* after the epoch's training pass has returned and before its "last"      *)
(* checkpoint and its evaluation; after k epochs of a fold it has been     *)
(* stepped k times.                                                        *)
(***************************************************************************)
C13_StepCount ==
    InFold =>
        /\ sched = (IF pc \in {"train", "sched"} THEN epoch - 1 ELSE epoch)
        /\ pc = "summary" => sched = num_epoch

LastWritten ==
    LET p == CkptPath(i + 1, "last")
    IN  p \in DOMAIN ckpt' /\ (p \notin DOMAIN ckpt \/ ckpt'[p] # ckpt[p])

C13_Order ==
    /\ (InFold /\ model' # model) =>
         model = epoch - 1 /\ sched = epoch - 1
    /\ (InFold /\ sched' # sched) =>
         /\ sched' = sched + 1 /\ sched = epoch - 1
         /\ model = epoch /\ mode = "train"
         /\ ~Holds(i + 1, "last", epoch)
    /\ (InFold /\ LastWritten) =>
         /\ sched = epoch /\ model = epoch /\ mode = "train"
         /\ Holds(i + 1, "last", epoch)'
    /\ (InFold /\ mode' # mode /\ mode' = "eval") =>
         /\ sched = epoch /\ model = epoch
         /\ Holds(i + 1, "last", epoch)

C13_EpochOrder == [](C13_StepCount) /\ [][C13_Order]_vars

\* the second fold has run two epochs and its schedule has been stepped twice
C13_Witness ==
    /\ pc = "loop" /\ i = 1
    /\ epoch = 2 /\ sched = 2 /\ model = 2
    /\ mode = "eval"
    /\ Holds(2, "last", 2)

(***************************************************************************)
(* C14.  An evaluation pass writes the fold's plot if and only if its R2   *)
(* exceeds max_r2 as it is before this epoch's update, which is the best   *)
(* R2 of the fold's earlier epochs; nothing else writes a plot.  So the    *)
(* plot is written in exactly the epochs that write the "best"             *)
(* checkpoint (at the end of every epoch both come from the same epoch),   *)
(* there is one image file per fold, and after the fold the plot shows     *)
(* the evaluation whose R2 the fold returned.                              *)
(***************************************************************************)
NoPlot == [points |-> 0, score |-> NaN]

PlotOf(f) == IF PlotPath(f) \in DOMAIN plots THEN plots[PlotPath(f)] ELSE NoPlot

BestEpoch(f) ==
    IF CkptPath(f, "best") \in DOMAIN ckpt THEN ckpt[CkptPath(f, "best")].model_state ELSE 0

C14_PlotState ==
    /\ DOMAIN plots \subseteq {PlotPath(f) : f \in 1..NumFolds}
    /\ InFold =>
        /\ PlotOf(i + 1).points =
              (IF pc \in {"eval_loss", "best_r2"} /\ FloatGreater(eval_res.r2, max_r2)
               THEN epoch ELSE BestEpoch(i + 1))
        /\ PlotOf(i + 1).points > 0 =>
              PlotOf(i + 1).score = EvalResult(i, PlotOf(i + 1).points).r2
        /\ \A f \in (i + 2)..NumFolds : PlotOf(f) = NoPlot
    /\ pc = "summary" =>
        /\ PlotOf(i + 1).points > 0 <=> (\E k \in 1..num_epoch : EvalResult(i, k).r2 = ret[1])
        /\ PlotOf(i + 1).points > 0 => PlotOf(i + 1).score = ret[1]
    /\ (pc # Uncaught) =>
        \A f \in 1..i :
            /\ PlotOf(f).points = BestEpoch(f)
            /\ PlotOf(f).points > 0 => PlotOf(f).score = best_result[f][2]

PlotWritten ==
    LET p == PlotPath(i + 1)
    IN  p \in DOMAIN plots' /\ (p \notin DOMAIN plots \/ plots'[p] # plots[p])

C14_PlotStep ==
    /\ plots' # plots =>
         /\ pc = "evaluate"
         /\ \A f \in 1..NumFolds : f # i + 1 => PlotOf(f)' = PlotOf(f)
    /\ (pc = "evaluate" /\ pc' = "eval_loss") =>
         /\ PlotWritten <=> FloatGreater(eval_res'.r2, max_r2)
         /\ IF epoch = 1 THEN max_r2 = F(SentinelLow)
            ELSE IsMax(max_r2, Column(FoldEvalRows, 3))

InitialTriple == <<F(SentinelLow), F(SentinelHigh), F(SentinelLow)>>

EvaluatedIn(fold_index, triple) ==
    \E k \in 1..num_epoch :
        LET res == EvalResult(fold_index, k)
        IN  triple = <<res.r2, res.mse, res.corr>>

C15_OnlyEvaluatedTriples ==
    /\ pc = "summary" => (ret # InitialTriple /\ EvaluatedIn(i, ret))
    /\ \A k \in 1..Len(best_result) :
          LET row == best_result[k]
          IN  /\ <<row[2], row[3], row[4]>> # InitialTriple
              /\ EvaluatedIn(k - 1, <<row[2], row[3], row[4]>>)
    /\ \A k \in 1..Len(r2_list) :
          /\ <<r2_list[k], mse_list[k], corr_list[k]>> # InitialTriple
          /\ EvaluatedIn(k - 1, <<r2_list[k], mse_list[k], corr_list[k]>>)
    /\ pc = "done" => average # InitialTriple

====
